---- MODULE Spec2Model ----
(***************************************************************************)
(* House Price Predictor (app.py): one Streamlit script that is re-run    *)
(* from the top on every interaction.  The model follows one browser      *)
(* session: the artifacts are loaded once, every interaction re-runs the  *)
(* script, the script detects a city in the address (exact pass by        *)
(* regular expression, then difflib's fuzzy fallback) and, when a city    *)
(* was detected, builds the input frame, preprocesses it and, when the    *)
(* button was pressed, predicts.                                          *)
(*                                                                         *)
(* A string is a sequence of one-character strings.                       *)
(***************************************************************************)
EXTENDS Integers, Sequences, FiniteSets

VARIABLES
    catalog,       \* encoders["CITY"].classes_
    transformers,  \* the keys of the dict of Yeo-Johnson transformers
    address,       \* the text of the address widget
    addr_clean,    \* address.strip().lower()
    city,          \* the detected city, or None
    pc,            \* the place the current run of the script has reached
    raw_input,     \* the input frame: its columns, in order, each with the steps applied
    button,        \* what st.button returned in this run, None before line 111
    calls          \* the calls this run has made so far, in order

vars == <<catalog, transformers, address, addr_clean, city, pc, raw_input, button, calls>>

\* Python's None: no string of characters
None == <<"None">>

\* ------------------------------------------------------------------ bounds
MaxAddrLen == 3
MaxCityLen == 2
MaxCatalog == 2

\* ------------------------------------------------------------- characters
\* The characters of the model: two lower-case letters, one upper-case
\* letter, whitespace, and two punctuation characters that are also
\* regular-expression syntax.
Letters == {"a", "b", "A"}
Whitespace == {" "}
AddrChars == {"a", "b", "A", " ", "."}
CityChars == {"a", "b", "A", " ", ".", "("}

\* The code points, for Python's comparison of strings.
CharCode(ch) ==
    CASE ch = " " -> 32
      [] ch = "(" -> 40
      [] ch = "." -> 46
      [] ch = "A" -> 65
      [] ch = "a" -> 97
      [] ch = "b" -> 98

\* str.lower()
LowerChar(ch) ==
    CASE ch = "A" -> "a"
      [] ch = "B" -> "b"
      [] ch = "X" -> "x"
      [] OTHER -> ch

Lower(s) == [i \in 1..Len(s) |-> LowerChar(s[i])]

\* str.strip(): leading and trailing whitespace removed
Strip(s) ==
    LET keep == {i \in 1..Len(s) : s[i] \notin Whitespace}
    IN  IF keep = {} THEN <<>>
        ELSE LET lo == CHOOSE i \in keep : \A j \in keep : i <= j
                 hi == CHOOSE i \in keep : \A j \in keep : j <= i
             IN  SubSeq(s, lo, hi)

\* ------------------------------------------------------ regular expression
\* re.search(rf"\b{c_clean}\b", addr_clean): the city name is pasted into
\* the pattern as it is, so its characters are pattern syntax: "." matches
\* any character, "(" opens a group (no character of the model closes it,
\* so the pattern does not compile and re.search raises re.error), every
\* other character of the model matches itself.

\* \w
IsWordChar(ch) == ch \in Letters

PatternError(p) == \E i \in 1..Len(p) : p[i] = "("

AtomMatches(atom, ch) == atom = "." \/ atom = ch

IsWordAt(s, i) == i \in 1..Len(s) /\ IsWordChar(s[i])

\* \b between s[p] and s[p+1] (p = 0: the start, p = Len(s): the end)
Boundary(s, p) == IsWordAt(s, p) # IsWordAt(s, p + 1)

MatchesAt(p, s, st) ==
    /\ Boundary(s, st)
    /\ \A k \in 1..Len(p) : AtomMatches(p[k], s[st + k])
    /\ Boundary(s, st + Len(p))

ReSearch(p, s) == \E st \in 0..(Len(s) - Len(p)) : MatchesAt(p, s, st)

\* ------------------------------------------------------------- exact pass
Raised == <<"re.error">>

\* The loop of lines 60-64 from index i on: the first city whose pattern is
\* found, None when the loop ends without one, Raised when a pattern that
\* does not compile is reached first.
RECURSIVE ExactScan(_, _, _)
ExactScan(classes, i, addr) ==
    IF i > Len(classes) THEN None
    ELSE LET c == classes[i]
             c_clean == Lower(Strip(c))
         IN  IF PatternError(c_clean) THEN Raised
             ELSE IF ReSearch(c_clean, addr) THEN c
             ELSE ExactScan(classes, i + 1, addr)

\* The loop without its break: the last city found wins.
RECURSIVE ExactScanNoBreak(_, _, _, _)
ExactScanNoBreak(classes, i, addr, found) ==
    IF i > Len(classes) THEN found
    ELSE LET c == classes[i]
             c_clean == Lower(Strip(c))
         IN  IF PatternError(c_clean) THEN Raised
             ELSE ExactScanNoBreak(classes, i + 1, addr,
                                   IF ReSearch(c_clean, addr) THEN c ELSE found)

ExactPassNoBreak(classes, addr) == ExactScanNoBreak(classes, 1, addr, None)

ExactPass(classes, addr) == ExactScan(classes, 1, addr)

\* ------------------------------------------------------------------ difflib
\* SequenceMatcher.find_longest_match on whole strings (no junk: isjunk is
\* None and autojunk needs 200 characters): the longest common block, of
\* those the one starting earliest in a, of those the one starting earliest
\* in b.  <<i, j, k>>, k = 0 when nothing matches.
CommonBlocks(a, b) ==
    {m \in (1..Len(a)) \X (1..Len(b)) \X (1..Len(a)) :
        /\ m[1] + m[3] - 1 <= Len(a)
        /\ m[2] + m[3] - 1 <= Len(b)
        /\ \A d \in 0..(m[3] - 1) : a[m[1] + d] = b[m[2] + d]}

BlockBefore(m, n) ==
    \/ m[3] > n[3]
    \/ m[3] = n[3] /\ m[1] < n[1]
    \/ m[3] = n[3] /\ m[1] = n[1] /\ m[2] <= n[2]

FindLongestMatch(a, b) ==
    LET blocks == CommonBlocks(a, b)
    IN  IF blocks = {} THEN <<1, 1, 0>>
        ELSE CHOOSE m \in blocks : \A n \in blocks : BlockBefore(m, n)

\* get_matching_blocks: the longest block, then the same to its left and to
\* its right; the number of characters matched.
RECURSIVE Matches(_, _)
Matches(a, b) ==
    LET m == FindLongestMatch(a, b)
        i == m[1]
        j == m[2]
        k == m[3]
    IN  IF k = 0 THEN 0
        ELSE k + Matches(SubSeq(a, 1, i - 1), SubSeq(b, 1, j - 1))
               + Matches(SubSeq(a, i + k, Len(a)), SubSeq(b, j + k, Len(b)))

\* The test on the matches instead of on the length.
CalculateRatioOnMatches(m, t) == IF m = 0 THEN <<1, 1>> ELSE <<2 * m, t>>

\* A ratio 2.0*M/T is kept as the pair <<2M, T>>; _calculate_ratio returns
\* 1.0 when T = 0.
CalculateRatio(m, t) == IF t = 0 THEN <<1, 1>> ELSE <<2 * m, t>>

\* SequenceMatcher(a = x, b = word).ratio()
Ratio(x, word) == CalculateRatio(Matches(x, word), Len(x) + Len(word))

\* real_quick_ratio(): an upper bound from the lengths alone
RealQuickRatio(x, word) ==
    CalculateRatio(IF Len(x) < Len(word) THEN Len(x) ELSE Len(word), Len(x) + Len(word))

Count(s, ch) == Cardinality({i \in 1..Len(s) : s[i] = ch})

Min(m, n) == IF m < n THEN m ELSE n

RECURSIVE SumOver(_, _, _)
SumOver(S, x, word) ==
    IF S = {} THEN 0
    ELSE LET ch == CHOOSE e \in S : TRUE
         IN  Min(Count(x, ch), Count(word, ch)) + SumOver(S \ {ch}, x, word)

\* quick_ratio(): an upper bound from the multisets of characters
QuickRatio(x, word) ==
    CalculateRatio(SumOver({x[i] : i \in 1..Len(x)}, x, word), Len(x) + Len(word))

\* cutoff = 0.7
CutoffNum == 7
CutoffDen == 10

\* r >= cutoff
AtLeastCutoff(r) == r[1] * CutoffDen >= CutoffNum * r[2]

RatioLess(r, q) == r[1] * q[2] < q[1] * r[2]

\* Python's x < y on strings
RECURSIVE StrLess(_, _)
StrLess(x, y) ==
    IF y = <<>> THEN FALSE
    ELSE IF x = <<>> THEN TRUE
    ELSE IF x[1] # y[1] THEN CharCode(x[1]) < CharCode(y[1])
    ELSE StrLess(Tail(x), Tail(y))

\* (score, x) < (score', x') on tuples
ScoredLess(p, q) == RatioLess(p[1], q[1]) \/ (~RatioLess(q[1], p[1]) /\ StrLess(p[2], q[2]))

\* The loop of get_close_matches: the possibilities that pass the three
\* tests, each with its score, in the order of the possibilities.
RECURSIVE Scored(_, _, _)
Scored(word, possibilities, i) ==
    IF i > Len(possibilities) THEN <<>>
    ELSE LET x == possibilities[i]
             rest == Scored(word, possibilities, i + 1)
         IN  IF /\ AtLeastCutoff(RealQuickRatio(x, word))
                /\ AtLeastCutoff(QuickRatio(x, word))
                /\ AtLeastCutoff(Ratio(x, word))
             THEN <<(<<Ratio(x, word), x>>)>> \o rest
             ELSE rest

\* The first that passes instead of the best.
FirstPassing(result) == result[1]

\* heapq.nlargest(1, result): max(result), the first of the largest
Largest(result) ==
    LET i == CHOOSE k \in 1..Len(result) :
                 /\ \A l \in 1..Len(result) : ~ScoredLess(result[k], result[l])
                 /\ \A l \in 1..(k - 1) : ScoredLess(result[l], result[k])
    IN  result[i]

\* get_close_matches(word, possibilities, n=1, cutoff=0.7)
GetCloseMatches(word, possibilities) ==
    LET result == Scored(word, possibilities, 1)
    IN  IF result = <<>> THEN <<>> ELSE <<Largest(result)[2]>>

\* [c.lower() for c in classes]
LowerAll(classes) == [i \in 1..Len(classes) |-> Lower(classes[i])]

\* The lower-cased candidate itself instead of the catalog entry.
LowerCasedCandidate(classes, x) == x

\* [c for c in classes if c.lower() == x][0]
FirstWithLower(classes, x) ==
    classes[CHOOSE i \in 1..Len(classes) :
                /\ Lower(classes[i]) = x
                /\ \A j \in 1..(i - 1) : Lower(classes[j]) # x]

\* Lines 67-70 when no city was found by the exact pass.
FuzzyFallback(classes, addr) ==
    LET matches == GetCloseMatches(addr, LowerAll(classes))
    IN  IF matches # <<>> THEN FirstWithLower(classes, matches[1]) ELSE None

\* ------------------------------------------------------------------ inputs
RECURSIVE Strings(_, _)
Strings(chars, n) ==
    IF n = 0 THEN {<<>>}
    ELSE LET shorter == Strings(chars, n - 1)
         IN  shorter \cup {Append(s, ch) : s \in shorter, ch \in chars}

\* A city name holds at least one letter.
CityNames ==
    {s \in Strings(CityChars, MaxCityLen) : \E i \in 1..Len(s) : s[i] \in Letters}

RECURSIVE Catalogs(_)
Catalogs(n) ==
    IF n = 1 THEN {<<c>> : c \in CityNames}
    ELSE LET shorter == Catalogs(n - 1)
         IN  shorter \cup
             {Append(cs, c) : cs \in {s \in shorter : Len(s) = n - 1}, c \in CityNames}

\* LabelEncoder.classes_: distinct
IsCatalog(cs) == \A i, j \in 1..Len(cs) : i # j => cs[i] # cs[j]

\* ------------------------------------------------------------------ the app
numeric_cols == <<"UNDER_CONSTRUCTION", "RERA", "BHK_NO.", "SQUARE_FT",
                  "READY_TO_MOVE", "RESALE", "LONGITUDE", "LATITUDE">>

\* The keys of the dict of LabelEncoders: the script reads POSTED_BY,
\* BHK_OR_RK and CITY from it.
encoders == {"POSTED_BY", "BHK_OR_RK", "CITY"}

Columns == <<"POSTED_BY", "UNDER_CONSTRUCTION", "RERA", "BHK_NO.", "BHK_OR_RK", "SQUARE_FT",
             "READY_TO_MOVE", "RESALE", "LONGITUDE", "LATITUDE", "CITY">>

\* pd.DataFrame({...}): one row, the columns in the order written
NewFrame == [i \in 1..Len(Columns) |-> [col |-> Columns[i], steps |-> <<>>]]

Range(s) == {s[i] : i \in 1..Len(s)}

\* The step applied to the whole frame instead of to the columns named.
ApplyToAll(frame, cols, step) ==
    [i \in 1..Len(frame) |-> [frame[i] EXCEPT !.steps = Append(@, step)]]

\* frame[col] = f(frame[col]) for every col of cols
Apply(frame, cols, step) ==
    [i \in 1..Len(frame) |->
        IF frame[i].col \in cols
        THEN [frame[i] EXCEPT !.steps = Append(@, step)]
        ELSE frame[i]]

\* The families of transformer keys of the model.
TransformerKeys == {{}, {"SQUARE_FT", "LONGITUDE"}}

\* The city of the run before, kept.
StaleCity == city

\* Line 55
InitCity == None

Init ==
    /\ catalog \in {cs \in Catalogs(MaxCatalog) : IsCatalog(cs)}
    /\ transformers \in TransformerKeys
    /\ address = <<>>
    /\ addr_clean = <<>>
    /\ city = None
    /\ pc = "done"
    /\ raw_input = <<>>
    /\ button = None
    /\ calls = <<"st.warning">>

\* What the user can do to the address between two runs.
Edits(a) ==
    {a} \cup {Append(a, ch) : ch \in {c \in AddrChars : Len(a) < MaxAddrLen}}
        \cup {SubSeq(a, 1, Len(a) - 1)}

\* An interaction re-runs the script: lines 28-57.
Rerun ==
    /\ pc \in {"done", "raised"}
    /\ \E a \in Edits(address) :
        /\ address' = a
        /\ city' = InitCity
        /\ IF a # <<>>
           THEN addr_clean' = Lower(Strip(a)) /\ pc' = "exact"
           ELSE addr_clean' = <<>> /\ pc' = "build"
    /\ raw_input' = <<>>
    /\ button' = None
    /\ calls' = <<>>
    /\ UNCHANGED <<catalog, transformers>>

\* Lines 60-64
Exact ==
    /\ pc = "exact"
    /\ LET found == ExactPass(catalog, addr_clean)
       IN  IF found = Raised
           THEN pc' = "raised" /\ city' = city
           ELSE pc' = "fuzzy" /\ city' = (IF found # None THEN found ELSE city)
    /\ UNCHANGED <<catalog, transformers, address, addr_clean, raw_input, button, calls>>

\* Lines 67-70
Fuzzy ==
    /\ pc = "fuzzy"
    /\ city' = IF city = None THEN FuzzyFallback(catalog, addr_clean) ELSE city
    /\ pc' = "build"
    /\ UNCHANGED <<catalog, transformers, address, addr_clean, raw_input, button, calls>>

\* The frame built whether or not a city was detected.
BuildUngated ==
    /\ pc = "build"
    /\ calls' = Append(calls, IF city = None THEN "st.warning" ELSE "st.success")
    /\ raw_input' = NewFrame
    /\ pc' = "encode"
    /\ UNCHANGED <<catalog, transformers, address, addr_clean, city, button>>

\* Lines 75-92
Build ==
    /\ pc = "build"
    /\ IF city = None
       THEN /\ calls' = Append(calls, "st.warning")
            /\ raw_input' = raw_input
            /\ pc' = "done"
       ELSE /\ calls' = Append(calls, "st.success")
            /\ raw_input' = NewFrame
            /\ pc' = "encode"
    /\ UNCHANGED <<catalog, transformers, address, addr_clean, city, button>>

\* Lines 98-99
Encode ==
    /\ pc = "encode"
    /\ raw_input' = Apply(raw_input, encoders, "le.transform")
    /\ calls' = Append(calls, "le.transform")
    /\ pc' = "power"
    /\ UNCHANGED <<catalog, transformers, address, addr_clean, city, button>>

\* Lines 102-103
Power ==
    /\ pc = "power"
    /\ raw_input' = Apply(raw_input, transformers, "pt.transform")
    /\ calls' = IF transformers # {} THEN Append(calls, "pt.transform") ELSE calls
    /\ pc' = "scale"
    /\ UNCHANGED <<catalog, transformers, address, addr_clean, city, button>>

\* Line 106
Scale ==
    /\ pc = "scale"
    /\ raw_input' = Apply(raw_input, Range(numeric_cols), "scaler.transform")
    /\ calls' = Append(calls, "scaler.transform")
    /\ pc' = "button"
    /\ UNCHANGED <<catalog, transformers, address, addr_clean, city, button>>

\* Lines 111-113: st.button is true in the run its click started
Predict ==
    /\ pc = "button"
    /\ \E pressed \in BOOLEAN :
        /\ button' = pressed
        /\ calls' = IF pressed THEN calls \o <<"model.predict", "st.success">> ELSE calls
    /\ pc' = "done"
    /\ UNCHANGED <<catalog, transformers, address, addr_clean, city, raw_input>>

Next == Rerun \/ Exact \/ Fuzzy \/ Build \/ Encode \/ Power \/ Scale \/ Predict

Spec == Init /\ [][Next]_vars


\* A session whose catalog holds longer names over fewer characters, so that
\* several entries pass the cutoff with different ratios.
FuzzyChars == {"a", "b", "."}

FuzzyNames ==
    {s \in Strings(FuzzyChars, MaxCityLen + 1) : \E i \in 1..Len(s) : s[i] \in Letters}

RECURSIVE FuzzyCatalogs(_)
FuzzyCatalogs(n) ==
    IF n = 1 THEN {<<c>> : c \in FuzzyNames}
    ELSE LET shorter == FuzzyCatalogs(n - 1)
         IN  shorter \cup
             {Append(cs, c) : cs \in {s \in shorter : Len(s) = n - 1}, c \in FuzzyNames}

InitFuzzy ==
    /\ catalog \in {cs \in FuzzyCatalogs(MaxCatalog) : IsCatalog(cs)}
    /\ transformers \in TransformerKeys
    /\ address = <<>>
    /\ addr_clean = <<>>
    /\ city = None
    /\ pc = "done"
    /\ raw_input = <<>>
    /\ button = None
    /\ calls = <<"st.warning">>

SpecFuzzy == InitFuzzy /\ [][Next]_vars

\* ================================================================== claims

\* The name as the resolver compares it.
Name(c) == Lower(Strip(c))

IsAlnumAt(s, i) == i \in 1..Len(s) /\ s[i] \in Letters

\* n stands in s as a word of its own: an occurrence of n, character for
\* character, with no letter or digit next to it on either side.
OccursStandalone(n, s) ==
    /\ n # <<>>
    /\ \E st \in 0..(Len(s) - Len(n)) :
        /\ \A k \in 1..Len(n) : s[st + k] = n[k]
        /\ ~IsAlnumAt(s, st)
        /\ ~IsAlnumAt(s, st + Len(n) + 1)

StandaloneEntries ==
    {i \in 1..Len(catalog) : OccursStandalone(Name(catalog[i]), addr_clean)}

\* C1: whenever the resolution of a non-empty address has returned and some
\* catalog name stands in the address as a word of its own, the city returned
\* is a catalog entry whose name stands so in the address.
C1_StandaloneNameIsReturned ==
    (pc = "build" /\ address # <<>> /\ StandaloneEntries # {})
        => city \in {catalog[i] : i \in StandaloneEntries}

\* C2: whenever the exact pass has selected a city, the name of that city
\* occurs in the address bounded on each side by a character that is no
\* letter or digit, or by an end of the string.
C2_ExactOnlyAtStandaloneOccurrence ==
    (pc = "fuzzy" /\ city # None) => OccursStandalone(Name(city), addr_clean)

SameLower(c) == {i \in 1..Len(catalog) : Lower(catalog[i]) = Lower(c)}

\* C4: a detected city is an entry of the catalog as the catalog spells it,
\* and one detected by the fuzzy fallback is the first entry whose lower-cased
\* form is the candidate matched.
C4_CityIsCatalogEntry ==
    city # None =>
        /\ \E i \in 1..Len(catalog) : catalog[i] = city
        /\ (pc = "build" /\ ExactPass(catalog, addr_clean) = None) =>
               \E i \in SameLower(city) :
                   /\ catalog[i] = city
                   /\ \A j \in SameLower(city) : i <= j

C4_Witness ==
    /\ pc = "build"
    /\ city # None
    /\ ExactPass(catalog, addr_clean) = None
    /\ city # Lower(city)
    /\ Cardinality(SameLower(city)) = 2

Has(call) == \E i \in 1..Len(calls) : calls[i] = call

Times(call) == Cardinality({i \in 1..Len(calls) : calls[i] = call})

PipelineCalls == {"le.transform", "pt.transform", "scaler.transform", "model.predict"}

\* C5: in a run with no city the warning is shown, the frame is never built
\* and none of the encoders, the transformers, the scaler or the model is
\* called; the model predicts at most once in a run, and only with a city
\* and the button pressed.
C5_NoCityNoPrediction ==
    /\ (city = None) =>
           /\ raw_input = <<>>
           /\ \A c \in PipelineCalls : ~Has(c)
           /\ pc = "done" => calls = <<"st.warning">>
    /\ Has("model.predict") => (city # None /\ button = TRUE)
    /\ Times("model.predict") <= 1

C5_Witness ==
    /\ pc = "done"
    /\ Strip(address) # <<>>
    /\ city = None
    /\ calls = <<"st.warning">>
    /\ raw_input = <<>>

Passing(word) ==
    {i \in 1..Len(catalog) : AtLeastCutoff(Ratio(Lower(catalog[i]), word))}

Bangalore == <<"B", "a", "n", "g", "a", "l", "o", "r", "e">>
bangalour == <<"b", "a", "n", "g", "a", "l", "o", "u", "r">>
xyzzyplex == <<"x", "y", "z", "z", "y", "p", "l", "e", "x">>

FuzzyExamples ==
    /\ FuzzyFallback(<<Bangalore>>, bangalour) = Bangalore
    /\ FuzzyFallback(<<Bangalore>>, xyzzyplex) = None

\* C6: the step of the fuzzy fallback, taken when the exact pass found no
\* city, leaves no city exactly when no entry's ratio 2M/T with the address
\* reaches 0.70, and otherwise leaves an entry whose ratio reaches it and is
\* the largest of all entries'; "Bangalour" gives Bangalore and "Xyzzyplex"
\* gives nothing.
C6_FuzzyTakesBestAboveCutoff ==
    [][(pc = "fuzzy" /\ city = None) =>
          /\ FuzzyExamples
          /\ (city' = None) <=> (Passing(addr_clean) = {})
          /\ (city' # None) =>
                \E i \in Passing(addr_clean) :
                    /\ catalog[i] = city'
                    /\ \A j \in 1..Len(catalog) :
                           ~RatioLess(Ratio(Lower(catalog[i]), addr_clean),
                                      Ratio(Lower(catalog[j]), addr_clean))]_vars

\* Two entries pass the cutoff with different ratios and the second, the
\* better one, is the city.
C6_Witness ==
    /\ pc = "build"
    /\ ExactPass(catalog, addr_clean) = None
    /\ Passing(addr_clean) = {1, 2}
    /\ RatioLess(Ratio(Lower(catalog[1]), addr_clean), Ratio(Lower(catalog[2]), addr_clean))
    /\ city = catalog[2]

\* C7: the resolution never raises.
C7_NeverRaises == pc # "raised"

ExpectedSteps(col) ==
    (IF col \in {"POSTED_BY", "BHK_OR_RK", "CITY"} THEN <<"le.transform">> ELSE <<>>)
    \o (IF col \in transformers THEN <<"pt.transform">> ELSE <<>>)
    \o (IF col \in {"UNDER_CONSTRUCTION", "RERA", "BHK_NO.", "SQUARE_FT",
                    "READY_TO_MOVE", "RESALE", "LONGITUDE", "LATITUDE"}
        THEN <<"scaler.transform">> ELSE <<>>)

\* C8: the frame handed to the model has the eleven columns in their order,
\* each label-encoded if categorical, then power-transformed if it has a
\* transformer, then scaled if numeric, and nothing else; the calls of the run
\* were made in that order, the prediction last.
C8_FrameAndOrder ==
    Has("model.predict") =>
        /\ [i \in 1..Len(raw_input) |-> raw_input[i].col] =
               <<"POSTED_BY", "UNDER_CONSTRUCTION", "RERA", "BHK_NO.", "BHK_OR_RK",
                 "SQUARE_FT", "READY_TO_MOVE", "RESALE", "LONGITUDE", "LATITUDE", "CITY">>
        /\ \A i \in 1..Len(raw_input) : raw_input[i].steps = ExpectedSteps(raw_input[i].col)
        /\ calls = <<"st.success", "le.transform">>
                   \o (IF transformers # {} THEN <<"pt.transform">> ELSE <<>>)
                   \o <<"scaler.transform", "model.predict", "st.success">>
        /\ city # None

C8_Witness ==
    /\ Has("model.predict")
    /\ transformers # {}
    /\ pc = "done"

\* The city as a function of the address and the catalog alone.
CityOf(a, classes) ==
    IF a = <<>> THEN None
    ELSE LET found == ExactPass(classes, Lower(Strip(a)))
         IN  IF found # None THEN found ELSE FuzzyFallback(classes, Lower(Strip(a)))

\* C9: every resolution that returns leaves the city that the address and the
\* catalog determine, whatever the runs before it left, and no step changes
\* the catalog or the loaded artifacts.
C9_ResolutionIsPure ==
    [][/\ catalog' = catalog
       /\ transformers' = transformers
       /\ (pc' = "build") => city' = CityOf(address', catalog')]_vars

\* A resolution that found a city, after runs with other addresses.
C9_Witness ==
    /\ pc = "build"
    /\ Len(address) = MaxAddrLen
    /\ city # None

\* The entries, by index, whose pattern is found in the address.
WholeWordEntries ==
    {i \in 1..Len(catalog) :
        /\ ~PatternError(Name(catalog[i]))
        /\ ReSearch(Name(catalog[i]), addr_clean)}

====
